---- MODULE Spec2Model ----
(***************************************************************************)
(* State-machine model of the MySQL protocol log parser                    *)
(* (agent/src/flow_generator/protocol_logs/sql/mysql.rs) and of the        *)
(* L7 dispatch bitmap (agent/src/common/l7_protocol_log.rs).               *)
(*                                                                         *)
(* Conventions.  A byte is a number 0..255, a payload a sequence of bytes. *)
(* Rust slices are 0-based, TLA+ sequences 1-based: payload[i] in the      *)
(* source is p[i + 1] here and &payload[k..] is From(p, k).  u32 and u64   *)
(* values are kept as their little-endian bytes (4 resp. 8 of them), so no *)
(* value is ever cut to the width of the checker's integers.  A String is  *)
(* a sequence of code points.  An out-of-range index or slice is the       *)
(* result kind "Panic".                                                    *)
(***************************************************************************)
EXTENDS Integers, Sequences, FiniteSets, TLC

(***************************************************************************)
(* consts.rs, the constants mysql.rs imports on line 4                     *)
(***************************************************************************)
PROTOCOL_VERSION == 10
HEADER_LEN == 4
NUMBER_OFFSET == 3
SERVER_VERSION_EOF == 0
PROTOCOL_VERSION_LEN == 1
THREAD_ID_LEN == 4
PROTOCOL_VERSION_OFFSET == 0
SERVER_VERSION_OFFSET == 1
THREAD_ID_OFFSET_B == 1
COMMAND_OFFSET == 0
COMMAND_LEN == 1
RESPONSE_CODE_LEN == 1
ERROR_CODE_LEN == 2
SQL_STATE_LEN == 6
SQL_STATE_MARKER == 35
RESPONSE_CODE_OFFSET == 0
ERROR_CODE_OFFSET == 1
AFFECTED_ROWS_OFFSET == 1
SQL_STATE_OFFSET == 3
INT_FLAGS_2 == 252
INT_FLAGS_3 == 253
INT_FLAGS_8 == 254
INT_BASE_LEN == 1
MYSQL_RESPONSE_CODE_OK == 0
MYSQL_RESPONSE_CODE_ERR == 255
MYSQL_RESPONSE_CODE_EOF == 254
MYSQL_COMMAND_QUIT == 1
MYSQL_COMMAND_USE_DATABASE == 2
MYSQL_COMMAND_QUERY == 3
MYSQL_COMMAND_SHOW_FIELD == 4

(***************************************************************************)
(* Slices, iterators and the wire readers                                  *)
(***************************************************************************)
\* &p[k..]; the caller has k <= Len(p)
From(p, k) == SubSeq(p, k + 1, Len(p))

\* &p[a..b]; the caller has a <= b <= Len(p)
Slice(p, a, b) == SubSeq(p, a + 1, b)

\* p.iter().position(|&x| x == b): the 0-based index of the first b, -1 for None
position(p, b) ==
    IF \E i \in 1..Len(p) : p[i] = b
    THEN (CHOOSE i \in 1..Len(p) : p[i] = b /\ \A j \in 1..(i - 1) : p[j] # b) - 1
    ELSE -1

Min(a, b) == IF a < b THEN a ELSE b

\* the byte of p at 0-based index i, 0 where the slice has none
ByteOr0(p, i) == IF i < Len(p) THEN p[i + 1] ELSE 0

\* utils::bytes::read_u16_le: the value of the first two bytes
read_u16_le(p) == ByteOr0(p, 0) + 256 * ByteOr0(p, 1)

\* utils::bytes::read_u32_le, as its four little-endian bytes
read_u32_le(p) == <<ByteOr0(p, 0), ByteOr0(p, 1), ByteOr0(p, 2), ByteOr0(p, 3)>>

\* utils::bytes::read_u64_le, as its eight little-endian bytes
read_u64_le(p) == [i \in 1..8 |-> ByteOr0(p, i - 1)]

\* `x as u64` of a value below 2^24, as its eight little-endian bytes
as_u64(x) ==
    <<x % 256, (x \div 256) % 256, (x \div 65536) % 256, 0, 0, 0, 0, 0>>

REPLACEMENT_CHARACTER == 65533

\* String::from_utf8_lossy(p).into_owned().  Exact for payloads whose bytes
\* are ASCII, lone continuation bytes (0x80..0xbf), 0xc0, 0xc1, 0xf5..0xff or
\* two-byte leads (0xc2..0xdf) not followed by a continuation byte: each
\* such non-ASCII byte is an invalid sequence of its own and becomes U+FFFD.
\* The payloads of this model hold no other bytes.
from_utf8_lossy(p) ==
    [i \in 1..Len(p) |-> IF p[i] < 128 THEN p[i] ELSE REPLACEMENT_CHARACTER]

\* str::is_ascii
is_ascii(s) == \A i \in 1..Len(s) : s[i] < 128

\* Regex::new("^[0-9\\.]{3,}").is_match(s)
IsVersionChar(c) == (c >= 48 /\ c <= 57) \/ c = 46

regex_is_match(s) == Len(s) >= 3 /\ \A i \in 1..3 : IsVersionChar(s[i])

(***************************************************************************)
(* MysqlInfo and MysqlLog                                                  *)
(***************************************************************************)
\* MysqlInfo::default()
MysqlInfoDefault ==
    [protocol_version |-> 0, server_version |-> <<>>,
     server_thread_id |-> <<0, 0, 0, 0>>,
     command |-> 0, context |-> <<>>,
     response_code |-> 0, error_code |-> 0,
     affected_rows |-> <<0, 0, 0, 0, 0, 0, 0, 0>>, error_message |-> <<>>]

\* merge appending the error message where the source assigns it
merge_append(self, other) ==
    [self EXCEPT !.response_code = other.response_code,
                 !.affected_rows = other.affected_rows,
                 !.error_code = other.error_code,
                 !.error_message = self.error_message \o other.error_message]

\* MysqlInfo::merge(&mut self, other): the record self becomes
merge(self, other) ==
    [self EXCEPT !.response_code = other.response_code,
                 !.affected_rows = other.affected_rows,
                 !.error_code = other.error_code,
                 !.error_message = other.error_message]

\* MysqlLog::default()
MysqlLogDefault ==
    [info |-> MysqlInfoDefault, l7_proto |-> "Unknown",
     msg_type |-> "Other", status |-> "Ok"]

\* a Result<()> of a MysqlLog method, with the MysqlLog it leaves behind
Res(kind, l) == [kind |-> kind, log |-> l]

mysql_string(payload) ==
    IF Len(payload) > 2 /\ payload[1] = 0 /\ payload[2] = 1
    THEN from_utf8_lossy(From(payload, 2))
    ELSE from_utf8_lossy(payload)

request_string(l, payload) == [l EXCEPT !.info.context = mysql_string(payload)]

\* reset_logs as `*self = Self::default()` would be: the pin is lost too
reset_logs_unpin(l) ==
    [l EXCEPT !.info = MysqlInfoDefault, !.status = "Ok", !.l7_proto = "Unknown"]

\* reset_logs leaving the record of the payload before
reset_logs_keeps(l) == l

reset_logs(l) == [l EXCEPT !.info = MysqlInfoDefault, !.status = "Ok"]

greeting(l, payload) ==
    IF Len(payload) < PROTOCOL_VERSION_LEN
    THEN Res("MysqlLogParseFailed", l)
    ELSE LET l1 == [l EXCEPT !.info.protocol_version =
                                 payload[PROTOCOL_VERSION_OFFSET + 1]]
             remain1 == Len(payload) - PROTOCOL_VERSION_LEN
             found == position(From(payload, SERVER_VERSION_OFFSET),
                               SERVER_VERSION_EOF)
             server_version_pos == IF found < 0 THEN 0 ELSE found
         IN  IF server_version_pos <= 0
             THEN Res("MysqlLogParseFailed", l1)
             ELSE LET l2 == [l1 EXCEPT !.info.server_version =
                                 from_utf8_lossy(Slice(payload, SERVER_VERSION_OFFSET,
                                     SERVER_VERSION_OFFSET + server_version_pos))]
                      remain2 == remain1 - server_version_pos
                      thread_id_offset == THREAD_ID_OFFSET_B + server_version_pos + 1
                  IN  IF remain2 < THREAD_ID_LEN
                      THEN Res("MysqlLogParseFailed", l2)
                      ELSE IF thread_id_offset > Len(payload)
                      THEN Res("Panic", l2)
                      ELSE Res("Ok",
                               [l2 EXCEPT !.info.server_thread_id =
                                              read_u32_le(From(payload, thread_id_offset)),
                                          !.l7_proto = "Mysql"])

request(l, payload) ==
    IF Len(payload) < COMMAND_LEN
    THEN Res("MysqlLogParseFailed", l)
    ELSE LET l1 == [l EXCEPT !.info.command = payload[COMMAND_OFFSET + 1]]
             command == l1.info.command
         IN  IF command \in {MYSQL_COMMAND_QUIT, MYSQL_COMMAND_SHOW_FIELD}
             THEN Res("Ok", [l1 EXCEPT !.l7_proto = "Mysql"])
             ELSE IF command \in {MYSQL_COMMAND_USE_DATABASE, MYSQL_COMMAND_QUERY}
             THEN Res("Ok", [request_string(l1, From(payload, COMMAND_OFFSET + COMMAND_LEN))
                                EXCEPT !.l7_proto = "Mysql"])
             ELSE Res("MysqlLogParseFailed", l1)

decode_compress_int(payload) ==
    LET remain == Len(payload) IN
    IF remain = 0
    THEN as_u64(0)
    ELSE LET value == payload[1] IN
         IF value = INT_FLAGS_2 /\ remain > INT_BASE_LEN + 2
         THEN as_u64(read_u16_le(From(payload, INT_BASE_LEN)))
         ELSE IF value = INT_FLAGS_3 /\ remain > INT_BASE_LEN + 3
         THEN as_u64(read_u16_le(From(payload, INT_BASE_LEN))
                     + 65536 * payload[INT_BASE_LEN + 2 + 1])
         ELSE IF value = INT_FLAGS_8 /\ remain > INT_BASE_LEN + 8
         THEN read_u64_le(From(payload, INT_BASE_LEN))
         ELSE as_u64(value)

set_status(l, status_code) ==
    IF status_code # 0
    THEN IF status_code >= 2000 /\ status_code <= 2999
         THEN [l EXCEPT !.status = "ClientError"]
         ELSE [l EXCEPT !.status = "ServerError"]
    ELSE [l EXCEPT !.status = "Ok"]

response(l, payload) ==
    IF Len(payload) < RESPONSE_CODE_LEN
    THEN Res("MysqlLogParseFailed", l)
    ELSE LET l1 == [l EXCEPT !.info.response_code = payload[RESPONSE_CODE_OFFSET + 1]]
             remain1 == Len(payload) - RESPONSE_CODE_LEN
         IN  IF l1.info.response_code = MYSQL_RESPONSE_CODE_ERR
             THEN LET hasCode == remain1 > ERROR_CODE_LEN
                      l2 == IF hasCode
                            THEN [l1 EXCEPT !.info.error_code =
                                      read_u16_le(From(payload, ERROR_CODE_OFFSET))]
                            ELSE l1
                      remain2 == IF hasCode THEN remain1 - ERROR_CODE_LEN ELSE remain1
                      l3 == set_status(l2, l2.info.error_code)
                  IN  IF remain2 > SQL_STATE_LEN /\ SQL_STATE_OFFSET >= Len(payload)
                      THEN Res("Panic", l3)
                      ELSE LET error_message_offset ==
                                   IF remain2 > SQL_STATE_LEN
                                      /\ payload[SQL_STATE_OFFSET + 1] = SQL_STATE_MARKER
                                   THEN SQL_STATE_OFFSET + SQL_STATE_LEN
                                   ELSE SQL_STATE_OFFSET
                           IN  IF error_message_offset > Len(payload)
                               THEN Res("Panic", l3)
                               ELSE Res("Ok", [l3 EXCEPT !.info.error_message =
                                        from_utf8_lossy(From(payload, error_message_offset))])
             ELSE IF l1.info.response_code = MYSQL_RESPONSE_CODE_OK
             THEN Res("Ok", [l1 EXCEPT !.status = "Ok",
                                       !.info.affected_rows =
                                           decode_compress_int(From(payload, AFFECTED_ROWS_OFFSET))])
             ELSE Res("Ok", l1)

(***************************************************************************)
(* MysqlHeader                                                             *)
(***************************************************************************)
\* MysqlHeader::default(), with no offset decoded yet
MysqlHeaderDefault == [off |-> 0, length |-> 0, number |-> 0]

\* MysqlHeader::decode on a default header: the isize it returns (off) and the
\* header fields as the call leaves them
RECURSIVE decode(_)
decode(payload) ==
    IF Len(payload) < 5
    THEN [MysqlHeaderDefault EXCEPT !.off = -1]
    ELSE LET len == payload[1] + 256 * payload[2] + 65536 * payload[3]
             first == payload[HEADER_LEN + RESPONSE_CODE_OFFSET + 1]
         IN  IF first = MYSQL_RESPONSE_CODE_OK
                \/ first = MYSQL_RESPONSE_CODE_ERR
                \/ first = MYSQL_RESPONSE_CODE_EOF
                \/ payload[NUMBER_OFFSET + 1] = 0
             THEN [off |-> HEADER_LEN, length |-> len,
                   number |-> payload[NUMBER_OFFSET + 1]]
             ELSE LET offset == len + HEADER_LEN IN
                  IF offset >= Len(payload)
                  THEN MysqlHeaderDefault
                  ELSE LET inner == decode(From(payload, offset))
                       IN  [inner EXCEPT !.off = offset + inner.off]

\* check without the guard on a non-zero number in an unidentified flow
check_no_midstream_guard(header, direction, offset, payload, l7_proto) ==
    IF offset >= Len(payload) \/ header.length = 0
    THEN "None"
    ELSE IF direction = "ServerToClient" /\ header.number = 0
    THEN LET body == From(payload, offset) IN
         IF Len(body) < PROTOCOL_VERSION_LEN
         THEN "None"
         ELSE LET protocol_version == body[PROTOCOL_VERSION_OFFSET + 1]
                  index == position(From(body, SERVER_VERSION_OFFSET),
                                    SERVER_VERSION_EOF)
              IN  IF index < 0
                  THEN "None"
                  ELSE IF index # 0 /\ protocol_version = PROTOCOL_VERSION
                  THEN "Other"
                  ELSE "None"
    ELSE IF direction = "ServerToClient"
    THEN "Response"
    ELSE IF direction = "ClientToServer" /\ header.number = 0
    THEN "Request"
    ELSE "None"

\* check without the test of the protocol version byte
check_any_version(header, direction, offset, payload, l7_proto) ==
    IF offset >= Len(payload) \/ header.length = 0
    THEN "None"
    ELSE IF header.number # 0 /\ l7_proto = "Unknown"
    THEN "None"
    ELSE IF direction = "ServerToClient" /\ header.number = 0
    THEN LET body == From(payload, offset) IN
         IF Len(body) < PROTOCOL_VERSION_LEN
         THEN "None"
         ELSE LET protocol_version == body[PROTOCOL_VERSION_OFFSET + 1]
                  index == position(From(body, SERVER_VERSION_OFFSET),
                                    SERVER_VERSION_EOF)
              IN  IF index < 0
                  THEN "None"
                  ELSE IF index # 0
                  THEN "Other"
                  ELSE "None"
    ELSE IF direction = "ServerToClient"
    THEN "Response"
    ELSE IF direction = "ClientToServer" /\ header.number = 0
    THEN "Request"
    ELSE "None"

\* MysqlHeader::check: the Option<LogMessageType>, "None" for None
check(header, direction, offset, payload, l7_proto) ==
    IF offset >= Len(payload) \/ header.length = 0
    THEN "None"
    ELSE IF header.number # 0 /\ l7_proto = "Unknown"
    THEN "None"
    ELSE IF direction = "ServerToClient" /\ header.number = 0
    THEN LET body == From(payload, offset) IN
         IF Len(body) < PROTOCOL_VERSION_LEN
         THEN "None"
         ELSE LET protocol_version == body[PROTOCOL_VERSION_OFFSET + 1]
                  index == position(From(body, SERVER_VERSION_OFFSET),
                                    SERVER_VERSION_EOF)
              IN  IF index < 0
                  THEN "None"
                  ELSE IF index # 0 /\ protocol_version = PROTOCOL_VERSION
                  THEN "Other"
                  ELSE "None"
    ELSE IF direction = "ServerToClient"
    THEN "Response"
    ELSE IF direction = "ClientToServer" /\ header.number = 0
    THEN "Request"
    ELSE "None"

(***************************************************************************)
(* L7LogParse for MysqlLog                                                 *)
(***************************************************************************)
NoHead == [proto |-> "Unknown", msg_type |-> "None", status |-> "Ok",
           code |-> 0, rrt |-> 0, version |-> 0]

\* what a parse call returns (kind, head) and the MysqlLog it leaves (log)
ParseRes(kind, l, head) == [kind |-> kind, log |-> l, head |-> head]

\* parse calling reset_logs before it looks at the L4 protocol
parse_resets_first(l, payload, proto, direction) ==
    IF proto # "Tcp"
    THEN ParseRes("InvalidIpProtocol", reset_logs(l), NoHead)
    ELSE LET l0 == reset_logs(l)
             header == decode(payload)
         IN  IF header.off < 0
             THEN ParseRes("MysqlLogParseFailed", l0, NoHead)
             ELSE LET offset == header.off
                      msg_type == check(header, direction, offset, payload, l0.l7_proto)
                  IN  IF msg_type = "None"
                      THEN ParseRes("MysqlLogParseFailed", l0, NoHead)
                      ELSE LET r == IF msg_type = "Request"
                                    THEN request(l0, From(payload, offset))
                                    ELSE IF msg_type = "Response"
                                    THEN response(l0, From(payload, offset))
                                    ELSE greeting(l0, From(payload, offset))
                           IN  IF r.kind # "Ok"
                               THEN ParseRes(r.kind, r.log, NoHead)
                               ELSE ParseRes("Ok", [r.log EXCEPT !.msg_type = msg_type],
                                             [proto |-> "Mysql", msg_type |-> msg_type,
                                              status |-> r.log.status,
                                              code |-> r.log.info.error_code,
                                              rrt |-> 0, version |-> 0])

\* MysqlLog::parse(&mut self, payload, proto, direction)
parse(l, payload, proto, direction) ==
    IF proto # "Tcp"
    THEN ParseRes("InvalidIpProtocol", l, NoHead)
    ELSE LET l0 == reset_logs(l)
             header == decode(payload)
         IN  IF header.off < 0
             THEN ParseRes("MysqlLogParseFailed", l0, NoHead)
             ELSE LET offset == header.off
                      msg_type == check(header, direction, offset, payload, l0.l7_proto)
                  IN  IF msg_type = "None"
                      THEN ParseRes("MysqlLogParseFailed", l0, NoHead)
                      ELSE LET r == IF msg_type = "Request"
                                    THEN request(l0, From(payload, offset))
                                    ELSE IF msg_type = "Response"
                                    THEN response(l0, From(payload, offset))
                                    ELSE greeting(l0, From(payload, offset))
                           IN  IF r.kind # "Ok"
                               THEN ParseRes(r.kind, r.log, NoHead)
                               ELSE ParseRes("Ok", [r.log EXCEPT !.msg_type = msg_type],
                                             [proto |-> "Mysql", msg_type |-> msg_type,
                                              status |-> r.log.status,
                                              code |-> r.log.info.error_code,
                                              rrt |-> 0, version |-> 0])

(***************************************************************************)
(* The parser registry and the skip bitmap (l7_protocol_log.rs).  A u128   *)
(* bitmap is the set of its 1 bits: `bitmap &= !(1 << n)` removes n,       *)
(* `bitmap |= 1 << n` adds n, `bitmap & (1 << n) == 0` is n \notin bitmap. *)
(***************************************************************************)
L7_HTTP1 == 20
L7_HTTP2 == 21
L7_DUBBO == 40
L7_MYSQL == 60
L7_POSTGRESQL == 61
L7_REDIS == 80
L7_KAFKA == 100
L7_MQTT == 101
L7_DNS == 120

\* get_all_protocol(): the parsers, each named by the protocol it is built for
get_all_protocol ==
    <<"Http1", "Http2", "Dns", "Mysql", "Kafka", "Redis", "Postgresql", "Dubbo", "Mqtt">>

\* parser.protocol() as u8
protocol(parser) ==
    CASE parser = "Http1" -> L7_HTTP1
      [] parser = "Http2" -> L7_HTTP2
      [] parser = "Dns" -> L7_DNS
      [] parser = "Mysql" -> L7_MYSQL
      [] parser = "Kafka" -> L7_KAFKA
      [] parser = "Redis" -> L7_REDIS
      [] parser = "Postgresql" -> L7_POSTGRESQL
      [] parser = "Dubbo" -> L7_DUBBO
      [] parser = "Mqtt" -> L7_MQTT

\* L7ProtocolParserInterface::parsable_on_tcp, the trait's default
parsable_on_tcp(parser) == TRUE

\* L7ProtocolParserInterface::parsable_on_udp: DNS alone parses on UDP
parsable_on_udp(parser) == parser = "Dns"

is_skip_parse(parser, bm) == protocol(parser) \notin bm

\* set_bitmap_skip_parse setting the parser's bit where the source clears it
set_bitmap_skip_parse_sets(parser, bm) == bm \cup {protocol(parser)}

\* L7ProtocolParser::set_bitmap_skip_parse: the bitmap it leaves
set_bitmap_skip_parse(parser, bm) == bm \ {protocol(parser)}

\* get_bitmap setting every registered parser's bit whatever the L4 protocol
get_bitmap_ungated(l4) ==
    {protocol(get_all_protocol[i]) : i \in 1..Len(get_all_protocol)}

\* get_bitmap(protocol): the loop over get_all_protocol(), from parser i on
RECURSIVE get_bitmap_from(_, _, _)
get_bitmap_from(l4, i, bm) ==
    IF i > Len(get_all_protocol)
    THEN bm
    ELSE LET parser == get_all_protocol[i] IN
         IF l4 = "Tcp" /\ parsable_on_tcp(parser)
         THEN get_bitmap_from(l4, i + 1, bm \cup {protocol(parser)})
         ELSE IF l4 = "Udp" /\ parsable_on_udp(parser)
         THEN get_bitmap_from(l4, i + 1, bm \cup {protocol(parser)})
         ELSE get_bitmap_from(l4, i + 1, bm)

get_bitmap(l4) == get_bitmap_from(l4, 1, {})

\* what mysql_check_protocol returns (ret), the bitmap it leaves and the
\* offset whose byte it inspected (-1 when it returned before)
CheckRes(bm, r, offset) == [bitmap |-> bm, ret |-> r, offset |-> offset]

\* mysql_check_protocol giving up at once on a flow whose MySQL bit is clear
mysql_check_protocol_skips(bm, packet) ==
    IF packet.proto # "Tcp"
    THEN CheckRes(bm \ {L7_MYSQL}, FALSE, -1)
    ELSE IF L7_MYSQL \notin bm
    THEN CheckRes(bm, FALSE, -1)
    ELSE IF ~packet.has_payload
    THEN CheckRes(bm, FALSE, -1)
    ELSE LET payload == packet.payload
             header == decode(payload)
             offset == header.off
         IN  IF offset < 0
             THEN CheckRes(bm \ {L7_MYSQL}, FALSE, -1)
             ELSE IF header.number # 0 \/ offset + header.length > Len(payload)
             THEN CheckRes(bm, FALSE, -1)
             ELSE LET protocol_version_or_query_type == payload[offset + 1] IN
                  IF protocol_version_or_query_type = MYSQL_COMMAND_QUERY
                  THEN CheckRes(bm, is_ascii(mysql_string(From(payload, offset + 1))), offset)
                  ELSE IF 8 <= protocol_version_or_query_type
                          /\ protocol_version_or_query_type <= 20
                  THEN LET max_len == Min(Len(payload), offset + 8)
                           context == mysql_string(Slice(payload, offset + 1, max_len))
                       IN  CheckRes(bm, regex_is_match(context), offset)
                  ELSE CheckRes(bm, FALSE, offset)

\* mysql_check_protocol(bitmap, packet); packet.has_payload is FALSE when
\* get_l4_payload() is None
mysql_check_protocol(bm, packet) ==
    IF packet.proto # "Tcp"
    THEN CheckRes(bm \ {L7_MYSQL}, FALSE, -1)
    ELSE IF ~packet.has_payload
    THEN CheckRes(bm, FALSE, -1)
    ELSE LET payload == packet.payload
             header == decode(payload)
             offset == header.off
         IN  IF offset < 0
             THEN CheckRes(bm \ {L7_MYSQL}, FALSE, -1)
             ELSE IF header.number # 0 \/ offset + header.length > Len(payload)
             THEN CheckRes(bm, FALSE, -1)
             ELSE LET protocol_version_or_query_type == payload[offset + 1] IN
                  IF protocol_version_or_query_type = MYSQL_COMMAND_QUERY
                  THEN CheckRes(bm, is_ascii(mysql_string(From(payload, offset + 1))), offset)
                  ELSE IF 8 <= protocol_version_or_query_type
                          /\ protocol_version_or_query_type <= 20
                  THEN LET max_len == Min(Len(payload), offset + 8)
                           context == mysql_string(Slice(payload, offset + 1, max_len))
                       IN  CheckRes(bm, regex_is_match(context), offset)
                  ELSE CheckRes(bm, FALSE, offset)

(***************************************************************************)
(* Inputs: the payloads, L4 protocols and directions the capture source    *)
(* hands to the parser                                                     *)
(***************************************************************************)
MaxText == 2
MaxRaw == 5

IpProtocols == {"Tcp", "Udp"}
PacketDirections == {"ClientToServer", "ServerToClient"}

\* every sequence over S of length at most n
RECURSIVE SeqsUpTo(_, _)
SeqsUpTo(S, n) ==
    IF n = 0
    THEN {<<>>}
    ELSE LET shorter == SeqsUpTo(S, n - 1)
         IN  shorter \cup {Append(t, b) : t \in shorter, b \in S}

\* the 4-byte frame header: 3 bytes of little-endian body length, 1 of number
Hdr(l, n) == <<l % 256, (l \div 256) % 256, (l \div 65536) % 256, n>>

\* text bytes: '5' and a byte that is no UTF-8
Texts == SeqsUpTo({53, 255}, MaxText)

RequestBodies ==
    {<<c>> \o t : c \in {1, 2, 3, 4, 5}, t \in Texts}
        \cup {<<3, 0, 1>> \o t : t \in Texts}

\* protocol version, server version ("5.7" or none), then nothing, the NUL
\* alone, the NUL and 3 bytes, or the NUL and a whole thread id
GreetingBodies ==
    {<<v>> \o sv \o tl : v \in {10, 9}, sv \in {<<>>, <<53, 46, 55>>},
                         tl \in {<<>>, <<0>>, <<0, 11, 0, 0>>, <<0, 11, 0, 0, 128>>}}

OkBodies ==
    {<<0>> \o li : li \in {<<>>, <<1>>, <<252>>, <<252, 0, 1>>, <<252, 0, 1, 0>>,
                           <<253, 0, 0, 1, 0>>}}

\* error codes 0, 1045, 1999, 2000, 2999, 3000; then nothing, a message, the
\* SQL-state marker alone, a SQL state, a SQL state and a message
ErrBodies ==
    {<<255>>, <<255, 21>>}
        \cup {<<255>> \o c \o t :
                c \in {<<0, 0>>, <<21, 4>>, <<207, 7>>, <<208, 7>>, <<183, 11>>, <<184, 11>>},
                t \in {<<>>, <<85>>, <<35>>, <<35, 72, 89, 48, 48, 48>>,
                       <<35, 72, 89, 48, 48, 48, 85>>}}

OtherBodies == {<<>>, <<254>>, <<5>>}

Bodies == RequestBodies \cup GreetingBodies \cup OkBodies \cup ErrBodies \cup OtherBodies

\* one frame whose header declares the body's length
Frames == {Hdr(Len(b), n) \o b : b \in Bodies, n \in {0, 1}}

\* a frame whose header declares no body, or one byte more than there is
MisdeclaredFrames ==
    {Hdr(l, n) \o b : l \in {0, 4}, n \in {0, 1},
                      b \in {<<3, 53>>, <<0, 1>>, <<255, 21, 4>>, <<10, 53, 0>>}}

\* a first frame that ends no walk (number 1, body 5 or 3 ...), then the rest
TwoFrames ==
    {lead \o rest :
        lead \in {Hdr(1, 1) \o <<5>>, Hdr(2, 1) \o <<3, 53>>, Hdr(0, 1) \o <<3, 53>>},
        rest \in {<<>>, <<53>>, <<53, 53>>,
                  Hdr(1, 2) \o <<0>>, Hdr(1, 2) \o <<255>>, Hdr(4, 2) \o <<255, 21, 4, 85>>,
                  Hdr(2, 0) \o <<3, 53>>, Hdr(1, 2) \o <<5>>}}

RawPayloads == SeqsUpTo({0, 255}, MaxRaw)

Payloads == Frames \cup MisdeclaredFrames \cup TwoFrames \cup RawPayloads

\* the payloads of datagrams that reach the parser on another L4 protocol
UdpPayloads == {<<>>, <<1, 0, 0, 0, 1>>, Hdr(1, 1) \o <<255>>}

\* a packet as the parser sees it: lookup_key.proto, direction, L4 payload
PacketsOf(payloads, protos) ==
    [payload : payloads, proto : protos, direction : PacketDirections]

Packets == PacketsOf(Payloads, {"Tcp"}) \cup PacketsOf(UdpPayloads, IpProtocols \ {"Tcp"})

\* a packet as mysql_check_protocol sees it: with an L4 payload or without
CheckPacketsOf(payloads, protos) ==
    [payload : payloads, proto : protos, has_payload : {TRUE}]
        \cup [payload : {<<>>}, proto : protos, has_payload : {FALSE}]

CheckPackets ==
    CheckPacketsOf(Payloads, {"Tcp"}) \cup CheckPacketsOf(UdpPayloads, IpProtocols \ {"Tcp"})

\* the packets of one short flow: a query, a query that is no ASCII, a
\* greeting, an OK response, a lone frame of number 1, a fragment
FlowPayloads ==
    {Hdr(2, 0) \o <<3, 53>>, Hdr(2, 0) \o <<3, 255>>,
     Hdr(9, 0) \o <<10, 53, 46, 55, 0, 11, 0, 0, 0>>,
     Hdr(2, 1) \o <<0, 1>>, Hdr(3, 1) \o <<53>>, <<1, 0>>}

FlowPackets == PacketsOf(FlowPayloads, {"Tcp"}) \cup PacketsOf({<<>>}, {"Udp"})

FlowCheckPackets == CheckPacketsOf(FlowPayloads, {"Tcp"}) \cup CheckPacketsOf({<<>>}, {"Udp"})

\* the L4 protocols a flow's bitmap is built for
L4Protocols == {"Tcp", "Udp", "Icmp"}

(***************************************************************************)
(* State                                                                   *)
(***************************************************************************)
VARIABLES
    log,      \* the flow's MysqlLog
    call,     \* the arguments of the latest parse call; l7_proto, status before it
    ret,      \* what the latest parse call returned
    okSeen,   \* some parse call returned Ok with msg_type Other or Request
    bitmap,   \* the flow's skip bitmap, as the set of its 1 bits
    chk,      \* the latest mysql_check_protocol call and its result
    op,       \* the latest operation on the flow: "parse", "check" or "skip"
    fun       \* a function applied to an input: its name, input and output

vars == <<log, call, ret, okSeen, bitmap, chk, op, fun>>

NoCall == [payload |-> <<>>, proto |-> "None", direction |-> "None", l7_proto |-> "Unknown",
           status |-> "Ok"]
NoRet == [kind |-> "None", head |-> NoHead]
NoChk == [payload |-> <<>>, proto |-> "None", has_payload |-> FALSE, ret |-> FALSE,
          offset |-> -1]
NoFun == [name |-> "None"]

(***************************************************************************)
(* The parser of one flow: parse is called once per payload                *)
(***************************************************************************)
InitParse ==
    /\ log = MysqlLogDefault
    /\ call = NoCall
    /\ ret = NoRet
    /\ okSeen = FALSE
    /\ bitmap = {}
    /\ chk = NoChk
    /\ op = "none"
    /\ fun = NoFun

\* one call of MysqlLog::parse; a panic ends the flow's thread
ParseOn(packets) ==
    /\ ret.kind # "Panic"
    /\ \E packet \in packets :
         LET r == parse(log, packet.payload, packet.proto, packet.direction) IN
         /\ log' = r.log
         /\ call' = [payload |-> packet.payload, proto |-> packet.proto,
                     direction |-> packet.direction, l7_proto |-> log.l7_proto,
                     status |-> log.status]
         /\ ret' = [kind |-> r.kind, head |-> r.head]
         /\ okSeen' = (okSeen \/ (r.kind = "Ok" /\ r.head.msg_type \in {"Other", "Request"}))
         /\ op' = "parse"

Parse == ParseOn(Packets) /\ UNCHANGED <<bitmap, chk, fun>>

NextParse == Parse

SpecParse == InitParse /\ [][NextParse]_vars

(***************************************************************************)
(* Claims about MysqlLog::parse, checked under SpecParse                   *)
(***************************************************************************)
\* the 0-based starts of the frames reached from position s by walking the
\* declared body lengths, as far as a whole header is there
RECURSIVE FrameStarts(_, _)
FrameStarts(p, s) ==
    IF s + 4 > Len(p)
    THEN {}
    ELSE {s} \cup FrameStarts(p, s + 4 + p[s + 1] + 256 * p[s + 2] + 65536 * p[s + 3])

\* the header the latest parse call decoded and the body it handed on
CallHeader == decode(call.payload)
CallBody == From(call.payload, CallHeader.off)
ParsedOk == ret.kind = "Ok"

\* C1: for every payload, direction and prior parser state, parse returns Ok
\* or an error value; it never indexes or slices past the payload's end.
C1_ParseNeverPanics == ret.kind # "Panic"

\* C3: once l7_proto is Mysql it is Mysql after every later parse call,
\* whatever the call is given and whatever it returns.
C3_PinStability == [][log.l7_proto = "Mysql" => log'.l7_proto = "Mysql"]_vars

\* a parse call on a pinned parser failed and left it pinned
C3_FailedParseOnPinned ==
    /\ call.l7_proto = "Mysql"
    /\ ret.kind = "MysqlLogParseFailed"
    /\ log.l7_proto = "Mysql"

\* C4: while l7_proto is Unknown, parse never returns Ok for a frame whose
\* sequence number is not 0; so every call returning Ok with msg_type
\* Response comes after a call that returned Ok with msg_type Other or Request.
C4_MidStreamRejection ==
    /\ (call.proto = "Tcp" /\ call.l7_proto = "Unknown" /\ CallHeader.number # 0)
           => ~ParsedOk
    /\ (ParsedOk /\ ret.head.msg_type = "Response") => okSeen

\* a complete OK response frame (number 1) from the server was refused by a
\* parser that had seen no greeting and no request
C4_ResponseRefusedMidStream ==
    /\ call.proto = "Tcp"
    /\ call.l7_proto = "Unknown"
    /\ call.direction = "ServerToClient"
    /\ call.payload = Hdr(2, 1) \o <<0, 1>>
    /\ ret.kind = "MysqlLogParseFailed"
    /\ ~okSeen

\* the status rule of the specification
StatusRule(code) ==
    IF code = 0 THEN "Ok"
    ELSE IF code >= 2000 /\ code <= 2999 THEN "ClientError"
    ELSE "ServerError"

\* C9: for a response body that starts with 0xff and holds the two error-code
\* bytes (length >= 3), a successful parse sets error_code to the
\* little-endian value of body bytes 1..2, status by the status rule, and
\* returns that error_code as the head's code.
C9_ErrResponseCode ==
    (ParsedOk /\ ret.head.msg_type = "Response"
        /\ CallBody[1] = 255 /\ Len(CallBody) >= 3)
    => /\ log.info.error_code = CallBody[2] + 256 * CallBody[3]
       /\ log.status = StatusRule(CallBody[2] + 256 * CallBody[3])
       /\ ret.head.code = CallBody[2] + 256 * CallBody[3]

\* a non-empty server version ending in NUL follows the protocol-version byte
HasServerVersion(body) ==
    /\ Len(body) >= 3
    /\ body[2] # 0
    /\ \E i \in 3..Len(body) : body[i] = 0

\* C10: when parse returns Ok, msg_type is Request exactly for client->server
\* with sequence number 0, Response exactly for server->client with a
\* non-zero sequence number, Other exactly for server->client with sequence
\* number 0, protocol version 10 and a non-empty NUL-terminated server
\* version; a client->server frame with non-zero number is always rejected.
C10_RoleResolution ==
    /\ ParsedOk =>
          /\ ret.head.msg_type = "Request"
                <=> (call.direction = "ClientToServer" /\ CallHeader.number = 0)
          /\ ret.head.msg_type = "Response"
                <=> (call.direction = "ServerToClient" /\ CallHeader.number # 0)
          /\ ret.head.msg_type = "Other"
                <=> (/\ call.direction = "ServerToClient"
                     /\ CallHeader.number = 0
                     /\ CallBody[1] = 10
                     /\ HasServerVersion(CallBody))
    /\ (call.proto = "Tcp" /\ call.direction = "ClientToServer" /\ CallHeader.number # 0)
          => ret.kind = "MysqlLogParseFailed"

\* a greeting was classified: Ok with msg_type Other
C10_GreetingClassified ==
    /\ ParsedOk
    /\ ret.head.msg_type = "Other"
    /\ log.info.protocol_version = 10
    /\ log.info.server_version = <<53, 46, 55>>

\* the body length the header of the frame at 0-based position s declares
DeclaredLength(p, s) == p[s + 1] + 256 * p[s + 2] + 65536 * p[s + 3]

\* the frame at 0-based position s ends the walk: its body begins with OK,
\* ERR or EOF, or its sequence number is 0
EndsWalk(p, s) ==
    /\ s + 4 < Len(p)
    /\ \/ p[s + 5] \in {MYSQL_RESPONSE_CODE_OK, MYSQL_RESPONSE_CODE_ERR,
                         MYSQL_RESPONSE_CODE_EOF}
       \/ p[s + 4] = 0

\* C12: whenever MysqlHeader::decode returns a non-negative offset, it is
\* the body offset (frame start + 4) of a frame reached by walking the
\* frames from position 0 by their declared lengths, that frame's body
\* begins with 0x00, 0xff or 0xfe or its sequence number is 0, and the
\* header's length and number are that frame's; when the payload holds no
\* such frame the result is negative.
C12_DecodeWalksFrames ==
    call.proto = "Tcp" =>
        LET p == call.payload
            found == {s \in FrameStarts(p, 0) : EndsWalk(p, s)}
        IN  /\ CallHeader.off >= 0 =>
                  \E s \in found :
                      /\ CallHeader.off = s + 4
                      /\ CallHeader.length = DeclaredLength(p, s)
                      /\ CallHeader.number = p[s + 4]
            /\ found = {} => CallHeader.off < 0

\* the lossy UTF-8 decoding of body from 0-based offset k to its end
MessageFrom(body, k) == IF k >= Len(body) THEN <<>> ELSE from_utf8_lossy(From(body, k))

\* C13: for an ERR response body (first byte 0xff) that parses successfully,
\* error_message is the lossy UTF-8 decoding of the body from offset 9 to
\* the end when body byte 3 is '#' (the 6-byte SQL state is skipped, whatever
\* follows it), and of the body from offset 3 to the end otherwise.
C13_ErrorMessageOffset ==
    (ParsedOk /\ ret.head.msg_type = "Response" /\ CallBody[1] = MYSQL_RESPONSE_CODE_ERR)
    => log.info.error_message =
          IF Len(CallBody) > SQL_STATE_OFFSET
             /\ CallBody[SQL_STATE_OFFSET + 1] = SQL_STATE_MARKER
          THEN MessageFrom(CallBody, SQL_STATE_OFFSET + SQL_STATE_LEN)
          ELSE MessageFrom(CallBody, SQL_STATE_OFFSET)

\* C14: parse called with an L4 protocol other than TCP returns
\* Error::InvalidIpProtocol and leaves the whole parser state unchanged:
\* info, l7_proto, msg_type and status are as before the call.
C14_InvalidIpProtocolKeepsState ==
    [][(op' = "parse" /\ call'.proto # "Tcp")
          => /\ ret'.kind = "InvalidIpProtocol"
             /\ log'.info = log.info
             /\ log'.l7_proto = log.l7_proto
             /\ log'.msg_type = log.msg_type
             /\ log'.status = log.status]_vars

\* a UDP payload was refused by a parser that holds an ERR response: error
\* code 1045, status ServerError, msg_type Response, all still there
C14_UdpRefusedAfterErr ==
    /\ call.proto = "Udp"
    /\ call.payload = Hdr(1, 1) \o <<255>>
    /\ ret.kind = "InvalidIpProtocol"
    /\ log.info.error_code = 1045
    /\ log.info.error_message = <<85>>
    /\ log.status = "ServerError"
    /\ log.msg_type = "Response"
    /\ log.l7_proto = "Mysql"

\* C15: no stale fields: when the latest parse call returned Ok with
\* msg_type Request, info holds that request's command and context alone,
\* its response fields (response_code, error_code, affected_rows,
\* error_message) and greeting fields (protocol_version, server_version,
\* server_thread_id) have their default values, and the returned head has
\* status Ok and code 0, whatever earlier payloads set.
C15_NoStaleFields ==
    (ParsedOk /\ ret.head.msg_type = "Request")
    => /\ log.info = [MysqlInfoDefault EXCEPT
                         !.command = CallBody[1],
                         !.context = IF CallBody[1] \in {MYSQL_COMMAND_USE_DATABASE,
                                                         MYSQL_COMMAND_QUERY}
                                     THEN mysql_string(From(CallBody, 1))
                                     ELSE <<>>]
       /\ log.status = "Ok"
       /\ ret.head.status = "Ok"
       /\ ret.head.code = 0

\* a query was parsed by a parser that an ERR response had left with status
\* ServerError
C15_RequestAfterErr ==
    /\ ParsedOk
    /\ ret.head.msg_type = "Request"
    /\ call.status = "ServerError"
    /\ call.payload = Hdr(2, 0) \o <<3, 53>>
    /\ log.info.context = <<53>>
    /\ log.info.error_code = 0

(***************************************************************************)
(* decode_compress_int applied to byte sequences                           *)
(***************************************************************************)
MaxIntTail == 9

\* a first byte around the flag values, then up to MaxIntTail bytes

IntPayloads ==
    {<<>>} \cup {<<v>> \o t : v \in {0, 127, 250, 251, 252, 253, 254, 255},
                             t \in SeqsUpTo({0, 1}, MaxIntTail)}

\* a byte sequence is drawn; decode_compress_int has not been applied yet
InitInt ==
    /\ log = MysqlLogDefault
    /\ call = NoCall
    /\ ret = NoRet
    /\ okSeen = FALSE
    /\ bitmap = {}
    /\ chk = NoChk
    /\ op = "none"
    /\ fun \in {[name |-> "decode_compress_int", in |-> payload, done |-> FALSE,
                 out |-> as_u64(0)] : payload \in IntPayloads}

DecodeCompressInt ==
    /\ fun.name = "decode_compress_int"
    /\ ~fun.done
    /\ fun' = [fun EXCEPT !.out = decode_compress_int(fun.in), !.done = TRUE]
    /\ UNCHANGED <<log, call, ret, okSeen, bitmap, chk, op>>

NextInt == DecodeCompressInt

SpecInt == InitInt /\ [][NextInt]_vars

\* the u64 whose little-endian bytes are the n bytes of p after the first
LeAfterFlag(p, n) == [i \in 1..8 |-> IF i <= n THEN p[1 + i] ELSE 0]

\* C2: decode_compress_int(p) is p[0] when p[0] < 0xfb, the little-endian
\* value of the next 2, 3 or 8 bytes when p[0] is 0xfc, 0xfd or 0xfe and p has
\* at least 3, 4 or 9 bytes, and 0 when the bytes the first byte asks for are
\* missing ([0xfc, 0x00, 0x01] gives 256 and [0xfc] gives 0).
C2_LengthEncodedInt ==
    (fun.name = "decode_compress_int" /\ fun.done) =>
        LET p == fun.in
            n == Len(p)
            zero == [i \in 1..8 |-> 0]
        IN  /\ n = 0 => fun.out = zero
            /\ (n >= 1 /\ p[1] < 251) => fun.out = [i \in 1..8 |-> IF i = 1 THEN p[1] ELSE 0]
            /\ (n >= 1 /\ p[1] = 252) => fun.out = IF n >= 3 THEN LeAfterFlag(p, 2) ELSE zero
            /\ (n >= 1 /\ p[1] = 253) => fun.out = IF n >= 4 THEN LeAfterFlag(p, 3) ELSE zero
            /\ (n >= 1 /\ p[1] = 254) => fun.out = IF n >= 9 THEN LeAfterFlag(p, 8) ELSE zero

(***************************************************************************)
(* MysqlInfo::merge applied again and again to one pair of records         *)
(***************************************************************************)
MaxMerges == 3

\* records with the request side, the response side or both filled in
MergeInfos ==
    {[MysqlInfoDefault EXCEPT !.command = c, !.context = x, !.response_code = rc,
                              !.error_code = ec, !.affected_rows = ar,
                              !.error_message = em] :
        c \in {0, 3}, x \in {<<>>, <<53>>}, rc \in {0, 255}, ec \in {0, 1045},
        ar \in {as_u64(0), as_u64(1)}, em \in {<<>>, <<85>>}}

\* a request record self, a response record other, nothing merged yet
InitMerge ==
    /\ log = MysqlLogDefault
    /\ call = NoCall
    /\ ret = NoRet
    /\ okSeen = FALSE
    /\ bitmap = {}
    /\ chk = NoChk
    /\ op = "none"
    /\ fun \in {[name |-> "merge", self |-> r, other |-> s, once |-> r, n |-> 0] :
                   r \in {i \in MergeInfos : i.command = 3},
                   s \in {i \in MergeInfos : i.command = 0 /\ i.context = <<>>}}

\* self.merge(other.clone()); once keeps what the first merge left in self
Merge ==
    /\ fun.name = "merge"
    /\ fun.n < MaxMerges
    /\ fun' = [fun EXCEPT !.self = merge(fun.self, fun.other),
                          !.once = IF fun.n = 0 THEN merge(fun.self, fun.other) ELSE @,
                          !.n = @ + 1]
    /\ UNCHANGED <<log, call, ret, okSeen, bitmap, chk, op>>

NextMerge == Merge

SpecMerge == InitMerge /\ [][NextMerge]_vars

\* C7: merging the same response record into a request record twice leaves
\* the record the first merge left, on all nine fields of MysqlInfo.
C7_MergeIdempotent == (fun.name = "merge" /\ fun.n >= 2) => fun.self = fun.once

\* a response with an error message was merged twice into a request that
\* already held another response code
C7_MergedTwice ==
    /\ fun.name = "merge"
    /\ fun.n = 2
    /\ fun.other.error_message = <<85>>
    /\ fun.other.response_code = 255
    /\ fun.self.command = 3
    /\ fun.self.error_message = <<85>>

(***************************************************************************)
(* The dispatch layer's operations on one flow's skip bitmap               *)
(***************************************************************************)
\* one call of mysql_check_protocol(&mut bitmap, packet)
MysqlCheckProtocolOn(packets) ==
    \E packet \in packets :
        LET r == mysql_check_protocol(bitmap, packet) IN
        /\ bitmap' = r.bitmap
        /\ chk' = [payload |-> packet.payload, proto |-> packet.proto,
                   has_payload |-> packet.has_payload, ret |-> r.ret,
                   offset |-> r.offset]
        /\ op' = "check"

\* one call of parser.set_bitmap_skip_parse(&mut bitmap)
SetBitmapSkipParseOf(parsers) ==
    /\ \E parser \in parsers : bitmap' = set_bitmap_skip_parse(parser, bitmap)
    /\ op' = "skip"

Parsers == {get_all_protocol[i] : i \in 1..Len(get_all_protocol)}

InitBitmap ==
    /\ log = MysqlLogDefault
    /\ call = NoCall
    /\ ret = NoRet
    /\ okSeen = FALSE
    /\ bitmap \in {get_bitmap(l4) : l4 \in L4Protocols}
    /\ chk = NoChk
    /\ op = "none"
    /\ fun = NoFun

SetBitmapSkipParse ==
    SetBitmapSkipParseOf(Parsers) /\ UNCHANGED <<log, call, ret, okSeen, chk, fun>>

MysqlCheckProtocolFlow ==
    MysqlCheckProtocolOn(FlowCheckPackets) /\ UNCHANGED <<log, call, ret, okSeen, fun>>

NextBitmap == SetBitmapSkipParse \/ MysqlCheckProtocolFlow

SpecBitmap == InitBitmap /\ [][NextBitmap]_vars

\* C6: over any sequence of set_bitmap_skip_parse (any parser) and
\* mysql_check_protocol (any packet) calls on one flow's bitmap, a bit that
\* is 0 stays 0: no operation sets a bit.
C6_BitmapMonotonic ==
    [][\A n \in 0..127 : n \notin bitmap => n \notin bitmap']_vars

\* bits were cleared by both operations: MySQL's by a check of a UDP packet,
\* DNS's by set_bitmap_skip_parse, the other TCP parsers' bits still set
C6_BitsCleared ==
    /\ chk.proto = "Udp"
    /\ bitmap = get_bitmap("Tcp") \ {L7_MYSQL, L7_DNS}

(***************************************************************************)
(* A new flow: get_bitmap builds its bitmap, then the driver rules parsers *)
(* out                                                                     *)
(***************************************************************************)
\* the flow's L4 protocol is known; get_bitmap has not been called yet
InitRegistry ==
    /\ log = MysqlLogDefault
    /\ call = NoCall
    /\ ret = NoRet
    /\ okSeen = FALSE
    /\ bitmap = {}
    /\ chk = NoChk
    /\ op = "none"
    /\ fun \in {[name |-> "get_bitmap", in |-> l4, done |-> FALSE, out |-> {}] :
                   l4 \in L4Protocols}

\* bitmap = get_bitmap(protocol)
GetBitmap ==
    /\ fun.name = "get_bitmap"
    /\ ~fun.done
    /\ fun' = [fun EXCEPT !.out = get_bitmap(fun.in), !.done = TRUE]
    /\ bitmap' = get_bitmap(fun.in)
    /\ op' = "get_bitmap"
    /\ UNCHANGED <<log, call, ret, okSeen, chk>>

SetBitmapSkipParseBuilt ==
    /\ fun.name = "get_bitmap"
    /\ fun.done
    /\ SetBitmapSkipParse

NextRegistry == GetBitmap \/ SetBitmapSkipParseBuilt

SpecRegistry == InitRegistry /\ [][NextRegistry]_vars

\* parser reports that it parses on the L4 protocol l4
ParsableOn(parser, l4) ==
    \/ l4 = "Tcp" /\ parsable_on_tcp(parser)
    \/ l4 = "Udp" /\ parsable_on_udp(parser)

\* C11: get_bitmap(l4) has bit n set if and only if some parser of
\* get_all_protocol() has discriminant n and reports parsable_on_tcp (l4 =
\* TCP) or parsable_on_udp (l4 = UDP); for any other L4 protocol the result
\* is 0, and a discriminant with no registered parser never has its bit set.
C11_InitialBitmap ==
    (fun.name = "get_bitmap" /\ fun.done) =>
        /\ \A n \in 0..127 :
              n \in fun.out <=>
                 \E i \in 1..Len(get_all_protocol) :
                     /\ protocol(get_all_protocol[i]) = n
                     /\ ParsableOn(get_all_protocol[i], fun.in)
        /\ fun.in \notin {"Tcp", "Udp"} => fun.out = {}
        /\ fun.out \subseteq {L7_HTTP1, L7_HTTP2, L7_DNS, L7_MYSQL, L7_KAFKA, L7_REDIS,
                               L7_POSTGRESQL, L7_DUBBO, L7_MQTT}

\* the bitmap of a UDP flow was built: DNS's bit alone
C11_UdpBitmapBuilt ==
    /\ fun.name = "get_bitmap"
    /\ fun.done
    /\ fun.in = "Udp"
    /\ fun.out = {L7_DNS}
    /\ bitmap = {L7_DNS}

(***************************************************************************)
(* mysql_check_protocol on every packet                                    *)
(***************************************************************************)
InitCheck == InitBitmap

MysqlCheckProtocol ==
    MysqlCheckProtocolOn(CheckPackets) /\ UNCHANGED <<log, call, ret, okSeen, fun>>

NextCheck == MysqlCheckProtocol

SpecCheck == InitCheck /\ [][NextCheck]_vars

\* C5: mysql_check_protocol returns true only when a frame header was
\* decoded from the payload, that frame's sequence number is 0, offset +
\* body_length <= payload.len() holds for it and the byte inspected is the
\* frame's first body byte; a payload whose frames all have a non-zero
\* sequence number is never accepted.
C5_CheckAcceptsDecodedFrame ==
    chk.ret =>
        \E s \in FrameStarts(chk.payload, 0) :
            /\ chk.offset = s + 4
            /\ chk.offset < Len(chk.payload)
            /\ chk.payload[s + 4] = 0
            /\ chk.offset + chk.payload[s + 1] + 256 * chk.payload[s + 2]
                   + 65536 * chk.payload[s + 3] <= Len(chk.payload)

(***************************************************************************)
(* One flow: parse and mysql_check_protocol on its packets, in any order,  *)
(* and the driver ruling parsers out                                       *)
(***************************************************************************)
\* the parsers the driver rules out on this flow
FlowParsers == {"Mysql", "Dns"}

InitFlow == InitBitmap

ParseFlow == ParseOn(FlowPackets) /\ UNCHANGED <<bitmap, chk, fun>>

SetBitmapSkipParseFlow ==
    SetBitmapSkipParseOf(FlowParsers) /\ UNCHANGED <<log, call, ret, okSeen, chk, fun>>

NextFlow == ParseFlow \/ MysqlCheckProtocolFlow \/ SetBitmapSkipParseFlow

SpecFlow == InitFlow /\ [][NextFlow]_vars

\* this step is a call of mysql_check_protocol on the packet of the latest
\* call before it
SamePacketCheckedAgain ==
    /\ chk.proto # "None"
    /\ op' = "check"
    /\ chk'.payload = chk.payload
    /\ chk'.proto = chk.proto
    /\ chk'.has_payload = chk.has_payload

\* C8: mysql_check_protocol's result depends only on the packet's L4
\* protocol and payload, not on the incoming bitmap nor on the MysqlLog or
\* earlier parse calls; a second call on the same packet returns the same
\* result and leaves the bitmap as the first call left it.
C8_CheckDeterministic ==
    [][SamePacketCheckedAgain =>
          /\ chk'.ret = chk.ret
          /\ (op = "check" => bitmap' = bitmap)]_vars

\* a query was accepted again by mysql_check_protocol after a parse call had
\* pinned the parser and the driver had cleared MySQL's bit
C8_AcceptedThenPinnedAndCleared ==
    /\ chk.ret
    /\ chk.payload = Hdr(2, 0) \o <<3, 53>>
    /\ log.l7_proto = "Mysql"
    /\ L7_MYSQL \notin bitmap
    /\ op = "check"

====
